---- MODULE Spec2Model ----
(***************************************************************************)
(* The XDP transmit task of s2n-quic-xdp (task/tx.rs): a future that       *)
(* drains an spsc queue of descriptors into the AF_XDP TX ring and tells a *)
(* Notifier about the progress.  The future `Tx` is modelled statement by  *)
(* statement; the producer of the queue, the consumer of the ring, the     *)
(* kernel's needs-wakeup flag and the scheduler are the environment.       *)
(***************************************************************************)
EXTENDS Integers, Sequences, FiniteSets, TLC

\* Number of descriptors the producer enqueues at most (TEST_ITEMS of the test).
MaxItems == 4
\* Capacity of the spsc channel (channel_size of the test).
QueueCap == 2
\* Number of descriptors of the producer of the backlog specification.
Backlog == 10
\* Number of slots of the TX ring.
RingCap == 2
\* `for iteration in 0..10`
IterationCap == 10

VARIABLES
    outgoing,      \* descriptors in the spsc channel, oldest first
    rx_index,      \* slot of the channel holding the oldest descriptor
    closed,        \* the spsc::Sender was dropped
    enqueued,      \* number of descriptors enqueued so far (they are 1..enqueued)
    total,         \* number of descriptors the producer has to enqueue
    tx,            \* descriptors released into the TX ring, not yet consumed
    tx_index,      \* slot of the ring the producer writes next
    needs_wakeup,  \* the ring's XDP_RING_NEED_WAKEUP flag
    notifier,      \* the Notifier of the task: a leaf <<n>> or a pair <<a, b>>
    pc,            \* position of the future in Tx::poll
    iteration,     \* the loop variable of Tx::poll
    slice_len,     \* `count` of line 129: slice.len()
    acquired,      \* `count` of line 143: tx.acquire(count)
    count,         \* `count` of line 160: vectored_copy(..)
    data,          \* descriptors written into the acquired slots (head, tail)
    ret,           \* what the last poll returned: "none", "Pending", "Ready"
    reason,        \* which return statement the last poll left through
    woken,         \* the task's waker was invoked: the scheduler will poll it
    rx_waker,      \* the spsc channel holds the task's waker
    n_waker,       \* a notifier that answered Pending holds the task's waker
    submitted,     \* work units submitted to the worker channel
    calls,         \* calls the notifier made in this iteration
    ops,           \* queue, ring and notifier operations of this iteration
    batches,       \* copy/release/notify batches of this resumption
    tx_log,        \* every descriptor released into the ring, in order
    rx_log         \* every descriptor released from the queue, in order

vars == << outgoing, rx_index, closed, enqueued, total, tx, tx_index, needs_wakeup,
           notifier, pc, iteration, slice_len, acquired, count, data, ret,
           reason, woken, rx_waker, n_waker, submitted, calls, ops, batches,
           tx_log, rx_log >>

queueVars  == << outgoing, rx_index, closed, enqueued, total, rx_log >>
ringVars   == << tx, tx_index, tx_log >>
localVars  == << slice_len, acquired, count, data >>
notifyVars == << submitted, calls >>

\* Number of descriptors of the producer of the liveness specification.
LiveItems == 2

Min(a, b) == IF a <= b THEN a ELSE b

Poll == {"Ready", "Pending"}

\* The implementations of Notifier in tx.rs, and one outside of it ("ext").
Leaves == {"unit", "worker", "socket", "ext"}

Notifiers == {<<a>> : a \in Leaves} \cup {<<a, b>> : a \in Leaves, b \in Leaves}

\* The notifiers of the backlog specification: the one of the test, the
\* socket and a notifier that may answer Pending.
BacklogNotifiers == {<<"worker">>, <<"socket">>, <<"ext">>}

\* The notifiers of the liveness specification: the one of the test, and a
\* pair of a notifier that may answer Pending and the socket.
LiveNotifiers == {<<"worker">>, <<"ext", "socket">>}

----------------------------------------------------------------------------
(* The collaborators: spsc::Receiver, ring::Tx, vectored_copy.             *)

\* Receiver::poll_slice: the closed error only once the channel is drained.
PollSlice(q, isClosed) ==
    IF Len(q) > 0 THEN [poll |-> "Ready", len |-> Len(q), err |-> FALSE]
    ELSE IF isClosed THEN [poll |-> "Ready", len |-> 0, err |-> TRUE]
    ELSE [poll |-> "Pending", len |-> 0, err |-> FALSE]

\* RecvSlice::peek: the first n descriptors as the run up to the end of the
\* buffer and the run after the wrap.
Peek(q, index, n) ==
    LET h == Min(n, QueueCap - index)
    IN  << SubSeq(q, 1, h), SubSeq(q, h + 1, n) >>

\* ring::Tx::acquire: what the ring may grant for a request.
Grants(request, ring) == 0 .. Min(request, RingCap - Len(ring))

\* ring::Tx::data: the lengths of the two views of the granted slots.
Data(index, granted) ==
    LET h == Min(granted, RingCap - index)
    IN  << h, granted - h >>

\* vectored_copy: min(total source, total destination) records, in order.
VectoredCopy(from, to) ==
    LET src == from[1] \o from[2]
        n   == Min(Len(src), to[1] + to[2])
        h   == Min(n, to[1])
    IN  [count |-> n, head |-> SubSeq(src, 1, h), tail |-> SubSeq(src, h + 1, n)]

----------------------------------------------------------------------------
(* The notifiers.  e is what an "ext" notifier answers, sys what the       *)
(* wakeup syscall returns.                                                 *)

Call(leaf, name, n, poll) == [leaf |-> leaf, call |-> name, n |-> n, poll |-> poll]

\* a bug: the wakeup syscall is made whatever the flag says
SocketNotifyEmptyAlways(flag, sys) ==
    [poll |-> "Ready", calls |-> << Call("socket", "wake_tx", 0, sys) >>]

\* a bug: a failed wakeup syscall is answered Pending
SocketNotifyEmptyPropagates(flag, sys) ==
    IF ~flag
    THEN [poll |-> "Ready", calls |-> << >>]
    ELSE [poll  |-> IF sys = "ok" THEN "Ready" ELSE "Pending",
          calls |-> << Call("socket", "wake_tx", 0, sys) >>]

\* <socket::Fd as Notifier>::notify_empty
SocketNotifyEmpty(flag, sys) ==
    IF ~flag
    THEN [poll |-> "Ready", calls |-> << >>]
    ELSE [poll |-> "Ready", calls |-> << Call("socket", "wake_tx", 0, sys) >>]

\* a bug: the worker notifier, which has no feedback, answers Pending
LeafNotifyEmptyWorkerPending(leaf, flag, e, sys) ==
    LET r == CASE leaf = "unit"   -> [poll |-> "Ready", calls |-> << >>]
               [] leaf = "worker" -> [poll |-> "Pending", calls |-> << >>]
               [] leaf = "socket" -> SocketNotifyEmpty(flag, sys)
               [] leaf = "ext"    -> [poll |-> e, calls |-> << >>]
    IN  [poll  |-> r.poll,
         calls |-> << Call(leaf, "notify_empty", 0, r.poll) >> \o r.calls]

\* notify_empty of one leaf
LeafNotifyEmpty(leaf, flag, e, sys) ==
    LET r == CASE leaf = "unit"   -> [poll |-> "Ready", calls |-> << >>]
               [] leaf = "worker" -> [poll |-> "Ready", calls |-> << >>]
               [] leaf = "socket" -> SocketNotifyEmpty(flag, sys)
               [] leaf = "ext"    -> [poll |-> e, calls |-> << >>]
    IN  [poll  |-> r.poll,
         calls |-> << Call(leaf, "notify_empty", 0, r.poll) >> \o r.calls]

\* a bug: the answer of the first notifier alone
PairNotifyEmptyFirst(a, b) == a.poll

\* <(A, B) as Notifier>::notify_empty
PairNotifyEmpty(a, b) ==
    IF a.poll = "Ready" /\ b.poll = "Ready" THEN a.poll ELSE "Pending"

\* a bug: the second notifier is not asked when the first answers Pending
NotifyEmptyShortCircuit(n, flag, e, sys) ==
    IF Len(n) = 1
    THEN LeafNotifyEmpty(n[1], flag, e[1], sys[1])
    ELSE LET a == LeafNotifyEmpty(n[1], flag, e[1], sys[1])
             b == LeafNotifyEmpty(n[2], flag, e[2], sys[2])
         IN  IF a.poll = "Pending"
             THEN [poll |-> "Pending", calls |-> a.calls]
             ELSE [poll |-> PairNotifyEmpty(a, b), calls |-> a.calls \o b.calls]

\* notifier.notify_empty(tx, cx)
NotifyEmpty(n, flag, e, sys) ==
    IF Len(n) = 1
    THEN LeafNotifyEmpty(n[1], flag, e[1], sys[1])
    ELSE LET a == LeafNotifyEmpty(n[1], flag, e[1], sys[1])
             b == LeafNotifyEmpty(n[2], flag, e[2], sys[2])
         IN  [poll |-> PairNotifyEmpty(a, b), calls |-> a.calls \o b.calls]

\* a bug: notify of the socket does not ask for a wakeup
LeafNotifySocketSilent(leaf, flag, c, sys) ==
    LET r == CASE leaf = "unit"   -> [units |-> 0, calls |-> << >>]
               [] leaf = "worker" -> [units |-> c, calls |-> << Call("worker", "submit", c, "Ready") >>]
               [] leaf = "socket" -> [units |-> 0, calls |-> << >>]
               [] leaf = "ext"    -> [units |-> 0, calls |-> << >>]
    IN  [units |-> r.units,
         calls |-> << Call(leaf, "notify", c, "Ready") >> \o r.calls]

\* a bug: the worker is given one work unit for a batch
LeafNotifyWorkerOne(leaf, flag, c, sys) ==
    LET r == CASE leaf = "unit"   -> [units |-> 0, calls |-> << >>]
               [] leaf = "worker" -> [units |-> 1, calls |-> << Call("worker", "submit", 1, "Ready") >>]
               [] leaf = "socket" -> [units |-> 0, calls |-> LeafNotifyEmpty("socket", flag, "Ready", sys).calls]
               [] leaf = "ext"    -> [units |-> 0, calls |-> << >>]
    IN  [units |-> r.units,
         calls |-> << Call(leaf, "notify", c, "Ready") >> \o r.calls]

\* notify of one leaf: the work units it submits and the calls it makes
LeafNotify(leaf, flag, c, sys) ==
    LET r == CASE leaf = "unit"   -> [units |-> 0, calls |-> << >>]
               [] leaf = "worker" -> [units |-> c, calls |-> << Call("worker", "submit", c, "Ready") >>]
               [] leaf = "socket" -> [units |-> 0, calls |-> LeafNotifyEmpty("socket", flag, "Ready", sys).calls]
               [] leaf = "ext"    -> [units |-> 0, calls |-> << >>]
    IN  [units |-> r.units,
         calls |-> << Call(leaf, "notify", c, "Ready") >> \o r.calls]

\* notifier.notify(tx, cx, count)
Notify(n, flag, c, sys) ==
    IF Len(n) = 1
    THEN LeafNotify(n[1], flag, c, sys[1])
    ELSE LET a == LeafNotify(n[1], flag, c, sys[1])
             b == LeafNotify(n[2], flag, c, sys[2])
         IN  [units |-> a.units + b.units, calls |-> a.calls \o b.calls]

HasLeaf(n, leaf) == \E i \in 1..Len(n) : n[i] = leaf

----------------------------------------------------------------------------
Start(ns, items) ==
    /\ outgoing = << >>
    /\ rx_index = 0
    /\ closed = FALSE
    /\ enqueued = 0
    /\ total = items
    /\ tx = << >>
    /\ tx_index = 0
    /\ needs_wakeup = FALSE
    /\ notifier \in ns
    /\ pc = "idle"
    /\ iteration = 0
    /\ slice_len = 0
    /\ acquired = 0
    /\ count = 0
    /\ data = << << >>, << >> >>
    /\ ret = "none"
    /\ reason = "none"
    /\ woken = TRUE
    /\ rx_waker = FALSE
    /\ n_waker = FALSE
    /\ submitted = 0
    /\ calls = << >>
    /\ ops = << >>
    /\ batches = 0
    /\ tx_log = << >>
    /\ rx_log = << >>

Init == Start(Notifiers, MaxItems)

InitBacklog == Start(BacklogNotifiers, Backlog)

InitLive == Start(LiveNotifiers, LiveItems)

Op(name, n) == [op |-> name, n |-> n]

----------------------------------------------------------------------------
(* The environment.                                                        *)

\* The queue wakes the receiver it holds a waker of.
WakeReceiver ==
    /\ woken' = (woken \/ rx_waker)
    /\ rx_waker' = FALSE

\* The producer task: one batch of b descriptors into the channel.
Enqueue(b) ==
    /\ ~closed
    /\ b >= 1
    /\ b <= QueueCap - Len(outgoing)
    /\ enqueued + b <= total
    /\ outgoing' = outgoing \o [i \in 1..b |-> enqueued + i]
    /\ enqueued' = enqueued + b
    /\ WakeReceiver
    /\ UNCHANGED << rx_index, closed, total, rx_log, ringVars, needs_wakeup,
                    notifier, pc, iteration, localVars, ret, reason, n_waker, notifyVars,
                    ops, batches >>

\* The producer task ends: the Sender is dropped.
Close ==
    /\ ~closed
    /\ closed' = TRUE
    /\ WakeReceiver
    /\ UNCHANGED << outgoing, rx_index, enqueued, total, rx_log, ringVars,
                    needs_wakeup, notifier, pc, iteration, localVars, ret, reason, n_waker,
                    notifyVars, ops, batches >>

\* The consumer of the ring takes the k oldest descriptors.
Consume(k) ==
    /\ k >= 1
    /\ k <= Len(tx)
    /\ tx' = SubSeq(tx, k + 1, Len(tx))
    /\ UNCHANGED << queueVars, tx_index, tx_log, needs_wakeup, notifier, pc,
                    iteration, localVars, ret, reason, woken, rx_waker, n_waker,
                    notifyVars, ops, batches >>

\* The kernel sets or clears the needs-wakeup flag (read by socket::Fd only).
KernelFlag ==
    /\ HasLeaf(notifier, "socket")
    /\ needs_wakeup' = ~needs_wakeup
    /\ UNCHANGED << queueVars, ringVars, notifier, pc, iteration, localVars, ret,
                    reason, woken, rx_waker, n_waker, notifyVars, ops, batches >>

\* A notifier that answered Pending wakes the task.
NotifierWake ==
    /\ n_waker
    /\ n_waker' = FALSE
    /\ woken' = TRUE
    /\ UNCHANGED << queueVars, ringVars, needs_wakeup, notifier, pc, iteration,
                    localVars, ret, reason, rx_waker, notifyVars, ops, batches >>

----------------------------------------------------------------------------
(* <Tx as Future>::poll                                                    *)

\* The scheduler polls the woken task.
Resume ==
    /\ pc = "idle"
    /\ woken
    /\ woken' = FALSE
    /\ pc' = "poll_slice"
    /\ iteration' = 0
    /\ ret' = "none"
    /\ reason' = "none"
    /\ ops' = << >>
    /\ calls' = << >>
    /\ batches' = 0
    /\ UNCHANGED << queueVars, ringVars, needs_wakeup, notifier, localVars,
                    rx_waker, n_waker, submitted >>

\* what the last operation of the iteration was
LastOp == IF ops = << >> THEN "none" ELSE ops[Len(ops)].op

\* a return statement of poll: Poll::Ready(()) ends the future
Return(value, why) ==
    /\ pc' = IF value = "Ready" THEN "done" ELSE "idle"
    /\ ret' = value
    /\ reason' = why

\* a bug: an empty queue ends the task as a closed one does
MatchPollSliceEmptyCompletes(r) ==
    IF r.poll = "Ready" /\ ~r.err THEN "count" ELSE "return Ready"

\* the arms of `match outgoing.poll_slice(cx)`
MatchPollSlice(r) ==
    IF r.poll = "Ready" /\ ~r.err THEN "count"
    ELSE IF r.poll = "Ready" /\ r.err THEN "return Ready"
    ELSE "return Pending"

\* outgoing.poll_slice(cx) and the match on its result; a Pending poll_slice
\* has registered the waker with the channel
TxPollSlice ==
    /\ pc = "poll_slice"
    /\ LET r == PollSlice(outgoing, closed)
           m == MatchPollSlice(r)
       IN  /\ ops' = << Op(IF r.poll = "Pending" THEN "poll_slice.pending"
                           ELSE IF r.err THEN "poll_slice.closed"
                           ELSE "poll_slice", r.len) >>
           /\ slice_len' = r.len
           /\ calls' = << >>
           /\ rx_waker' = (rx_waker \/ r.poll = "Pending")
           /\ IF m = "return Pending" THEN Return("Pending", "queue")
              ELSE IF m = "return Ready" THEN Return("Ready", "closed")
              ELSE /\ pc' = "acquire"
                   /\ UNCHANGED << ret, reason >>
    /\ UNCHANGED << queueVars, ringVars, needs_wakeup, notifier, iteration,
                    acquired, count, data, woken, n_waker, submitted, batches >>


\* a bug: the task asks for every slot of the ring
RequestWholeRing == RingCap

\* the argument of tx.acquire(count): the length of the polled slice
Request == slice_len

\* a bug: the copy is reached with a grant of zero
TxAcquireNoZeroCheck ==
    /\ pc = "acquire"
    /\ \E g \in Grants(Request, tx) :
          /\ acquired' = g
          /\ ops' = Append(ops, Op("acquire", g))
          /\ pc' = "copy"
    /\ UNCHANGED << queueVars, ringVars, needs_wakeup, notifier, iteration,
                    slice_len, count, data, ret, reason, woken, rx_waker,
                    n_waker, notifyVars, batches >>

\* let count = tx.acquire(count)
TxAcquire ==
    /\ pc = "acquire"
    /\ \E g \in Grants(Request, tx) :
          /\ acquired' = g
          /\ ops' = Append(ops, Op("acquire", g))
          /\ pc' = IF g = 0 THEN "notify_empty" ELSE "copy"
    /\ UNCHANGED << queueVars, ringVars, needs_wakeup, notifier, iteration,
                    slice_len, count, data, ret, reason, woken, rx_waker,
                    n_waker, notifyVars, batches >>

\* the bindings of the loop body leave their scope
EndOfBody ==
    /\ slice_len' = 0
    /\ acquired' = 0
    /\ count' = 0
    /\ data' = << << >>, << >> >>

\* a bug: one iteration too many
NextPcOffByOne(i) == IF i + 1 <= IterationCap THEN "poll_slice" ELSE "wake_self"

\* `for iteration in 0..10`: the next iteration, or the end of the loop
NextPc(i) == IF i + 1 < IterationCap THEN "poll_slice" ELSE "wake_self"

\* a bug: the task suspends whatever the notifier answers
OnNotifyEmptySuspends(poll) == "return Pending"

\* `if notifier.notify_empty(tx, cx).is_ready() { continue } else { return Poll::Pending }`
OnNotifyEmpty(poll) == IF poll = "Ready" THEN "continue" ELSE "return Pending"

\* a notifier that answers Pending has kept the waker of cx
Registered(cs) ==
    \E i \in 1..Len(cs) : cs[i].call = "notify_empty" /\ cs[i].poll = "Pending"

\* a bug: the zero-grant branch tells the notifier of a batch of zero
TxNotifyEmptyNotifies ==
    /\ pc = "notify_empty"
    /\ \E sys \in [1..2 -> {"ok", "err"}] :
          LET r == Notify(notifier, needs_wakeup, acquired, sys)
          IN  /\ calls' = r.calls
              /\ submitted' = submitted + r.units
    /\ ops' = Append(ops, Op("notify", acquired))
    /\ pc' = NextPc(iteration)
    /\ iteration' = iteration + 1
    /\ EndOfBody
    /\ UNCHANGED << queueVars, ringVars, needs_wakeup, notifier,
                    ret, reason, woken, rx_waker, n_waker, batches >>

\* the branch `if count == 0`
TxNotifyEmpty ==
    /\ pc = "notify_empty"
    /\ \E e \in [1..2 -> Poll], sys \in [1..2 -> {"ok", "err"}] :
          LET r == NotifyEmpty(notifier, needs_wakeup, e, sys)
          IN  /\ calls' = r.calls
              /\ n_waker' = (n_waker \/ Registered(r.calls))
              /\ ops' = Append(ops, Op(IF r.poll = "Ready" THEN "notify_empty.ready"
                                       ELSE "notify_empty.pending", 0))
              /\ IF OnNotifyEmpty(r.poll) = "continue"
                 THEN /\ pc' = NextPc(iteration)
                      /\ iteration' = iteration + 1
                      /\ UNCHANGED << ret, reason >>
                 ELSE /\ Return("Pending", "notifier")
                      /\ UNCHANGED iteration
    /\ EndOfBody
    /\ UNCHANGED << queueVars, ringVars, needs_wakeup, notifier,
                    woken, rx_waker, submitted, batches >>

\* a bug: the two runs of the queue are given in the wrong order
CopySourceSwapped(peek) == << peek[2], peek[1] >>

\* a bug: the run after the wrap of the queue is not copied
CopySourceHeadOnly(peek) == << peek[1], << >> >>

\* the sources of the copy: &[rx_head, rx_tail]
CopySource(peek) == << peek[1], peek[2] >>

\* outgoing.slice().peek(), tx.data(), vectored_copy and the assertion, which
\* panics in a build with debug assertions only
TxCopy ==
    /\ pc = "copy"
    /\ LET r == VectoredCopy(CopySource(Peek(outgoing, rx_index, slice_len)),
                             Data(tx_index, acquired))
       IN  /\ count' = r.count
           /\ data' = << r.head, r.tail >>
           /\ ops' = Append(ops, Op("copy", r.count))
           /\ IF r.count = 0
              THEN pc' \in {"panicked", "tx_release"}
              ELSE pc' = "tx_release"
    /\ UNCHANGED << queueVars, ringVars, needs_wakeup, notifier, iteration,
                    slice_len, acquired, ret, reason, woken, rx_waker, n_waker,
                    notifyVars, batches >>

\* a bug: the last copied descriptor is not released to the ring
TxReleaseCountShort == count - 1

\* the argument of tx.release(count as _)
TxReleaseCount == count

\* tx.release(count as _)
TxRelease ==
    /\ pc = "tx_release"
    /\ LET written == SubSeq(data[1] \o data[2], 1, TxReleaseCount)
       IN  /\ tx' = tx \o written
           /\ tx_log' = tx_log \o written
    /\ tx_index' = (tx_index + TxReleaseCount) % RingCap
    /\ ops' = Append(ops, Op("tx.release", TxReleaseCount))
    /\ pc' = "rx_release"
    /\ UNCHANGED << queueVars, needs_wakeup, notifier, iteration, localVars,
                    ret, reason, woken, rx_waker, n_waker, notifyVars, batches >>

\* a bug: the whole polled slice is released from the queue
RxReleaseCountSlice == slice_len

\* the argument of outgoing.release(count)
RxReleaseCount == count

\* outgoing.release(count)
RxRelease ==
    /\ pc = "rx_release"
    /\ outgoing' = SubSeq(outgoing, RxReleaseCount + 1, Len(outgoing))
    /\ rx_log' = rx_log \o SubSeq(outgoing, 1, RxReleaseCount)
    /\ rx_index' = (rx_index + RxReleaseCount) % QueueCap
    /\ ops' = Append(ops, Op("rx.release", RxReleaseCount))
    /\ pc' = "notify"
    /\ UNCHANGED << closed, enqueued, total, ringVars, needs_wakeup, notifier,
                    iteration, localVars, ret, reason, woken, rx_waker, n_waker,
                    notifyVars, batches >>

\* a bug: the notifier is told the length of the polled slice
NotifyCountSlice == slice_len

\* the argument of notifier.notify(tx, cx, count as _)
NotifyCount == count

\* notifier.notify(tx, cx, count as _), the last statement of the loop body
TxNotify ==
    /\ pc = "notify"
    /\ \E sys \in [1..2 -> {"ok", "err"}] :
          LET r == Notify(notifier, needs_wakeup, NotifyCount, sys)
          IN  /\ calls' = r.calls
              /\ submitted' = submitted + r.units
    /\ ops' = Append(ops, Op("notify", NotifyCount))
    /\ batches' = batches + 1
    /\ pc' = NextPc(iteration)
    /\ iteration' = iteration + 1
    /\ EndOfBody
    /\ UNCHANGED << queueVars, ringVars, needs_wakeup, notifier,
                    ret, reason, woken, rx_waker, n_waker >>

\* a bug: the task suspends at the end of the loop without waking itself
WakeSelfForgotten ==
    /\ pc = "wake_self"
    /\ Return("Pending", "yield")
    /\ UNCHANGED << queueVars, ringVars, needs_wakeup, notifier, iteration,
                    localVars, woken, rx_waker, n_waker, notifyVars, ops, batches >>

\* cx.waker().wake_by_ref(); Poll::Pending
WakeSelf ==
    /\ pc = "wake_self"
    /\ woken' = TRUE
    /\ Return("Pending", "yield")
    /\ UNCHANGED << queueVars, ringVars, needs_wakeup, notifier, iteration,
                    localVars, rx_waker, n_waker, notifyVars, ops, batches >>


Next ==
    \/ \E b \in 1..QueueCap : Enqueue(b)
    \/ Close
    \/ \E k \in 1..RingCap : Consume(k)
    \/ KernelFlag
    \/ NotifierWake
    \/ Resume
    \/ TxPollSlice
    \/ TxAcquire
    \/ TxNotifyEmpty
    \/ TxCopy
    \/ TxRelease
    \/ RxRelease
    \/ TxNotify
    \/ WakeSelf

Spec == Init /\ [][Next]_vars

\* The same task with a producer of Backlog descriptors.
SpecBacklog == InitBacklog /\ [][Next]_vars

----------------------------------------------------------------------------
(* The properties.                                                         *)

\* the sequence of the descriptors enqueued so far
EnqueueOrder == [i \in 1..enqueued |-> i]

IsPrefix(s, t) == Len(s) <= Len(t) /\ \A i \in 1..Len(s) : s[i] = t[i]

\* the statements of the loop body
Body == {"poll_slice", "acquire", "notify_empty", "copy", "tx_release",
         "rx_release", "notify"}

\* C1: at every moment the descriptors released into the TX ring are a prefix
\* of the enqueue sequence, in the same order and without gaps, and what the
\* ring's consumer has still to take is the end of that sequence.
C1_Ordering ==
    /\ IsPrefix(tx_log, EnqueueOrder)
    /\ Len(tx) <= Len(tx_log)
    /\ tx = SubSeq(tx_log, Len(tx_log) - Len(tx) + 1, Len(tx_log))

\* a batch of two that wraps in the queue and in the ring has been released
\* after earlier batches
C1_Witness ==
    /\ pc = "rx_release"
    /\ count = 2
    /\ Len(data[2]) = 1
    /\ rx_index = QueueCap - 1
    /\ Len(tx_log) >= 3

\* C2: when the task has completed, the descriptors released into the ring are
\* the descriptors released from the queue and are all the descriptors that
\* were enqueued.
C2_Conservation ==
    pc = "done" =>
        /\ Len(tx_log) = Len(rx_log)
        /\ Len(rx_log) = enqueued
        /\ tx_log = EnqueueOrder
        /\ outgoing = << >>

C2_Witness == pc = "done" /\ enqueued >= 3

\* C3: every descriptor released from the queue has been released to the ring,
\* no descriptor is released to the ring twice, and outside of the two release
\* statements the ring has got exactly what the queue has given.
C3_ExactlyOnce ==
    /\ IsPrefix(rx_log, tx_log)
    /\ \A i, j \in 1..Len(tx_log) : i # j => tx_log[i] # tx_log[j]
    /\ pc # "rx_release" => tx_log = rx_log
    /\ pc = "rx_release" => tx_log = rx_log \o SubSeq(outgoing, 1, count)

\* a batch smaller than the polled slice has been moved after earlier batches
C3_Witness == pc = "notify" /\ count < slice_len /\ Len(rx_log) >= 2

\* C4: in an iteration the ring grants no more than the queue reported, and
\* what is copied and released is no more than either.
C4_NoOverrun ==
    /\ pc \in {"notify_empty", "copy", "tx_release", "rx_release", "notify"}
          => acquired <= slice_len
    /\ pc \in {"tx_release", "rx_release", "notify"}
          => /\ count <= slice_len
             /\ count <= acquired
             /\ \A i \in 1..Len(ops) :
                   ops[i].op \in {"copy", "tx.release", "rx.release"}
                      => ops[i].n <= slice_len /\ ops[i].n <= acquired

\* the ring has granted less than the queue reported
C4_Witness == pc = "tx_release" /\ acquired < slice_len /\ count = acquired

\* C5: a notify(count) follows, in its iteration, the release of exactly count
\* to the ring and then the release of exactly count from the queue; the
\* notifier is told a count that the ring has got.
C5_ReleaseBeforeNotify ==
    /\ \A i \in 1..Len(ops) :
          /\ ops[i].op = "notify"
                => /\ i >= 3
                   /\ ops[i - 2] = Op("tx.release", ops[i].n)
                   /\ ops[i - 1] = Op("rx.release", ops[i].n)
                   /\ ops[i].n <= Len(tx_log)
          /\ ops[i].op = "rx.release"
                => i >= 2 /\ ops[i - 1] = Op("tx.release", ops[i].n)
    /\ \A j \in 1..Len(calls) :
          calls[j].call = "notify"
             => LastOp = "notify" /\ calls[j].n = ops[Len(ops)].n

C5_Witness == LastOp = "notify" /\ ops[Len(ops)].n = 2 /\ Len(calls) >= 2

\* C6: the task has completed exactly when its last poll of the queue reported
\* it closed, and a completed task does nothing more to the queue, the ring or
\* the notifier.
C6_Completion ==
    /\ [](/\ (ret = "Ready") <=> (LastOp = "poll_slice.closed")
          /\ (pc = "done") <=> (ret = "Ready")
          /\ pc = "done" => closed /\ reason = "closed")
    /\ [][pc = "done" =>
             /\ pc' = "done"
             /\ UNCHANGED << outgoing, rx_index, rx_log, tx_index, tx_log, ops,
                             calls, submitted, rx_waker, n_waker, ret, reason,
                             iteration, batches, localVars >>]_vars

C6_Witness == pc = "done" /\ enqueued >= 1 /\ Len(tx) >= 1

\* whether the poll that returned ended in an iteration that moved nothing
MovedNothing == LastOp \in {"poll_slice.pending", "notify_empty.pending"}

\* C7: a suspended task was suspended by a Pending queue, by a zero grant with
\* a Pending notifier or by the end of the loop, each leaves its wake condition
\* at the return, and a task that is suspended with neither its own wake nor
\* a notifier's pending has an empty, open queue that holds its waker.
C7_NoLostWakeup ==
    /\ [](pc = "idle" /\ ret = "Pending" =>
             /\ reason \in {"queue", "notifier", "yield"}
             /\ reason = "queue" => LastOp = "poll_slice.pending"
             /\ reason = "notifier" => LastOp = "notify_empty.pending"
             /\ reason = "yield" => iteration = IterationCap
             /\ ~MovedNothing => reason = "yield")
    /\ [](pc = "idle" /\ ~woken /\ ~n_waker =>
             outgoing = << >> /\ ~closed /\ rx_waker)
    /\ [][pc # "idle" /\ pc' = "idle" =>
             \/ reason' = "queue" /\ rx_waker'
             \/ reason' = "notifier" /\ n_waker'
             \/ reason' = "yield" /\ woken']_vars

\* suspended by the notifier while the queue has descriptors
C7_Witness ==
    /\ pc = "idle"
    /\ reason = "notifier"
    /\ n_waker
    /\ ~woken
    /\ outgoing # << >>

\* C8: a resumption runs at most IterationCap iterations and so at most as
\* many batches, zero grants included; after the last one the task wakes
\* itself and returns Pending.
C8_FairnessCap ==
    /\ [](/\ iteration <= IterationCap
          /\ batches <= iteration
          /\ pc \in Body => iteration < IterationCap
          /\ pc = "wake_self" => iteration = IterationCap)
    /\ [][pc = "wake_self" /\ pc' # "wake_self" =>
             pc' = "idle" /\ ret' = "Pending" /\ woken']_vars
    /\ [][(pc \in Body) /\ iteration' = IterationCap => pc' = "wake_self"]_vars

\* ten batches in one resumption
C8_Witness == pc = "wake_self" /\ batches = IterationCap

\* C9: a zero grant answered Ready by the notifier does not suspend the task:
\* it goes on with the next iteration of the same resumption, polling the
\* queue again, or leaves the loop at the cap.
C9_ZeroGrantRetry ==
    /\ [](pc = "notify_empty" => acquired = 0 /\ slice_len > 0)
    /\ [][pc = "notify_empty" /\ pc' # "notify_empty"
             /\ LastOp' = "notify_empty.ready" =>
             /\ iteration' = iteration + 1
             /\ ret' = "none"
             /\ pc' = IF iteration + 1 < IterationCap THEN "poll_slice"
                      ELSE "wake_self"
             /\ UNCHANGED << outgoing, tx, tx_log, rx_log, woken >>]_vars

\* capacity is granted after two retries of the same resumption
C9_Witness == pc = "copy" /\ iteration >= 2 /\ batches = 0

IsNotifyEmpty(c) == c.call = "notify_empty"

\* C10: notify_empty of a pair answers Ready exactly when both of its
\* notifiers answered Ready in that call.
C10_PairNotifyEmpty ==
    Len(notifier) = 2 /\ LastOp \in {"notify_empty.ready", "notify_empty.pending"}
       => LET polls == SelectSeq(calls, IsNotifyEmpty)
          IN  /\ Len(polls) = 2
              /\ polls[1].leaf = notifier[1]
              /\ polls[2].leaf = notifier[2]
              /\ (LastOp = "notify_empty.ready")
                    <=> (polls[1].poll = "Ready" /\ polls[2].poll = "Ready")

\* the first answers Ready, the second Pending
C10_Witness ==
    /\ Len(notifier) = 2
    /\ LastOp = "notify_empty.pending"
    /\ Len(calls) = 2
    /\ calls[1].poll = "Ready"
    /\ calls[2].poll = "Pending"

\* whether entry i of a call log is a syscall::wake_tx
IsWake(cs, i) == i >= 1 /\ i <= Len(cs) /\ cs[i].call = "wake_tx"

\* C11: notify_empty of the socket answers Ready, never Pending; it makes no
\* wakeup syscall when the needs-wakeup flag is unset and exactly one when the
\* flag is set.
C11_SocketNotifyEmpty ==
    /\ [](\A i \in 1..Len(calls) :
             calls[i].leaf = "socket" /\ calls[i].call = "notify_empty"
                => calls[i].poll = "Ready")
    /\ [][calls' # calls =>
             \A i \in 1..Len(calls') :
                calls'[i].leaf = "socket" /\ calls'[i].call = "notify_empty"
                   => /\ IsWake(calls', i + 1) <=> needs_wakeup
                      /\ ~IsWake(calls', i + 2)]_vars

\* the zero-grant branch has asked the socket while the flag was set
C11_Witness ==
    /\ notifier = << "socket" >>
    /\ LastOp = "notify_empty.ready"
    /\ Len(calls) = 2
    /\ calls[1].call = "notify_empty"
    /\ calls[2].call = "wake_tx"

\* whether entry i of a call log is a notify of the socket
IsSocketNotify(cs, i) == cs[i].leaf = "socket" /\ cs[i].call = "notify"

\* C12, as claimed: every notify of the socket makes a wakeup syscall.
C12_AlwaysWakes ==
    \A i \in 1..Len(calls) :
       IsSocketNotify(calls, i) => IsWake(calls, i + 2)

\* C12, amended: every notify of the socket, whatever its count, goes through
\* notify_empty: it makes one wakeup syscall when the needs-wakeup flag is set
\* and none when it is unset.
C12_SocketNotify ==
    [][calls' # calls =>
          \A i \in 1..Len(calls') :
             IsSocketNotify(calls', i)
                => /\ i + 1 <= Len(calls')
                   /\ calls'[i + 1] = Call("socket", "notify_empty", 0, "Ready")
                   /\ IsWake(calls', i + 2) <=> needs_wakeup
                   /\ ~IsWake(calls', i + 3)]_vars

\* a notify of two descriptors has woken the socket
C12_Witness ==
    /\ notifier = << "socket" >>
    /\ LastOp = "notify"
    /\ Len(calls) = 3
    /\ calls[1].n = 2
    /\ calls[3].call = "wake_tx"

\* whether a call log holds a wakeup syscall that failed
HasFailedWake(cs) == \E i \in 1..Len(cs) : IsWake(cs, i) /\ cs[i].poll = "err"

\* a call log with every wakeup syscall succeeding
Succeeded(cs) ==
    [i \in 1..Len(cs) |->
        IF cs[i].call = "wake_tx" THEN Call(cs[i].leaf, "wake_tx", 0, "ok") ELSE cs[i]]

AllOk == [i \in 1..2 |-> "ok"]

\* C13: a notifier call in which a wakeup syscall failed answers what it
\* answers when the syscalls succeed, and the task goes on to the same
\* statement with the same queue and ring: it neither completes nor panics
\* nor skips a release.
C13_WakeupFailure ==
    /\ [](HasFailedWake(calls) =>
             pc \notin {"done", "panicked"} /\ ret # "Ready")
    /\ [][calls' # calls /\ HasFailedWake(calls') =>
             \/ /\ pc = "notify_empty"
                /\ \E e \in [1..2 -> Poll] :
                      LET r == NotifyEmpty(notifier, needs_wakeup, e, AllOk)
                      IN  /\ Succeeded(calls') = r.calls
                          /\ LastOp' = IF r.poll = "Ready" THEN "notify_empty.ready"
                                       ELSE "notify_empty.pending"
                          /\ pc' = IF OnNotifyEmpty(r.poll) = "continue"
                                   THEN NextPc(iteration) ELSE "idle"
                /\ UNCHANGED << outgoing, tx, tx_log, rx_log, submitted >>
             \/ /\ pc = "notify"
                /\ LET r == Notify(notifier, needs_wakeup, NotifyCount, AllOk)
                   IN  /\ Succeeded(calls') = r.calls
                       /\ submitted' = submitted + r.units
                /\ pc' = NextPc(iteration)
                /\ LastOp' = "notify"
                /\ ops[Len(ops)] = Op("rx.release", NotifyCount)
                /\ UNCHANGED << outgoing, tx, tx_log, rx_log, ret >>]_vars

\* the wakeup after a batch failed and the task polls the queue again
C13_Witness ==
    /\ HasFailedWake(calls)
    /\ LastOp = "notify"
    /\ pc = "poll_slice"
    /\ Len(tx) >= 1

\* the number of worker::Sender notifiers of the task
Workers == Cardinality({i \in 1..Len(notifier) : notifier[i] = "worker"})

\* C14: a notify(count) of the worker notifier submits exactly count work
\* units, its notify_empty answers Ready and submits nothing; so, outside of
\* the release and notify statements, each worker notifier has submitted as
\* many work units as descriptors were released to the ring.
C14_WorkerSubmits ==
    /\ [](pc \notin {"rx_release", "notify"}
             => submitted = Workers * Len(tx_log))
    /\ [](\A i \in 1..Len(calls) :
             /\ calls[i].leaf = "worker" /\ calls[i].call = "notify"
                   => /\ i + 1 <= Len(calls)
                      /\ calls[i + 1] = Call("worker", "submit", calls[i].n, "Ready")
             /\ calls[i].leaf = "worker" /\ calls[i].call = "notify_empty"
                   => /\ calls[i].poll = "Ready"
                      /\ i + 1 <= Len(calls) => calls[i + 1].call # "submit"
             /\ calls[i].call = "submit"
                   => i >= 2 /\ calls[i - 1].leaf = "worker"
                             /\ calls[i - 1].call = "notify")
    /\ [][pc = "notify_empty" /\ pc' # pc => submitted' = submitted]_vars
    /\ [][pc = "notify" /\ pc' # pc =>
             submitted' = submitted + Workers * count]_vars

\* the worker notifier of the test has been given three work units
C14_Witness ==
    /\ notifier = << "worker" >>
    /\ pc = "idle"
    /\ submitted >= 3
    /\ submitted = Len(tx_log)

----------------------------------------------------------------------------
(* Liveness.                                                               *)

\* the ring grants at least one slot
TxAcquireGrant == TxAcquire /\ acquired' > 0

\* a statement of Tx::poll
TxStep ==
    \/ TxPollSlice
    \/ TxAcquire
    \/ TxNotifyEmpty
    \/ TxCopy
    \/ TxRelease
    \/ RxRelease
    \/ TxNotify
    \/ WakeSelf

\* The collaborators are fair: the scheduler polls a woken task and a poll
\* runs to its return, a ring with free slots grants some of them again and
\* again, the consumer of the ring takes what is in it, and a notifier that
\* answered Pending wakes the task.
Fairness ==
    /\ WF_vars(Resume)
    /\ WF_vars(TxStep)
    /\ SF_vars(TxAcquireGrant)
    /\ WF_vars(\E k \in 1..RingCap : Consume(k))
    /\ WF_vars(NotifierWake)

SpecLive == InitLive /\ [][Next]_vars /\ Fairness

\* C15: with fair collaborators every enqueued descriptor is eventually
\* released into the ring, and once the queue is closed the task eventually
\* completes.
C15_Liveness ==
    /\ \A i \in 1..LiveItems : (enqueued >= i) ~> (Len(tx_log) >= i)
    /\ closed ~> (pc = "done")

\* the task has completed after moving every descriptor
C15_Witness == pc = "done" /\ Len(tx_log) = LiveItems /\ tx = << >>

----------------------------------------------------------------------------
\* what is moved in an iteration that polled q descriptors and was granted g
BatchOf(q, g) == Min(q, g)

\* C16: in an iteration that polled q > 0 descriptors and was granted g > 0
\* slots, exactly min(q, g) descriptors are copied, released to the ring,
\* released from the queue and notified, wrapped views included; the q - g
\* descriptors that were not copied stay at the head of the queue, in order.
C16_BatchIsMinimum ==
    /\ pc \in {"tx_release", "rx_release", "notify"}
          => count = BatchOf(slice_len, acquired)
    /\ pc = "tx_release"
          => /\ data[1] \o data[2] = SubSeq(outgoing, 1, count)
             /\ Len(data[1]) = Min(count, RingCap - tx_index)
    /\ \A i \in 3..Len(ops) :
          ops[i].op \in {"copy", "tx.release", "rx.release", "notify"}
             => ops[i].n = BatchOf(ops[1].n, ops[2].n)
    /\ LastOp \in {"rx.release", "notify"}
          => /\ Len(outgoing) >= ops[1].n - ops[2].n
             /\ \A i \in 1..Len(outgoing) : outgoing[i] = Len(rx_log) + i
             /\ \A i \in 1..ops[3].n :
                   rx_log[Len(rx_log) - ops[3].n + i] = tx_log[Len(tx_log) - ops[3].n + i]

\* one of two polled descriptors has been moved from the last slot of the
\* queue's buffer and the other one stays at the head of the queue
C16_Witness ==
    /\ LastOp = "rx.release"
    /\ ops[1].n = 2
    /\ ops[2].n = 1
    /\ rx_index = 0
    /\ Len(rx_log) >= 2
    /\ Len(outgoing) >= 1

\* C17: the copy is reached with a polled slice and a grant that are not
\* empty, so the copied count is never 0 and the assertion never fails.
C17_AssertionHolds ==
    /\ pc # "panicked"
    /\ pc = "copy" => slice_len > 0 /\ acquired > 0
    /\ pc \in {"tx_release", "rx_release", "notify"} => count # 0
    /\ \A i \in 1..Len(ops) : ops[i].op = "copy" => ops[i].n # 0

\* a copy of a later iteration has passed the assertion
C17_Witness ==
    /\ pc = "tx_release"
    /\ LastOp = "copy"
    /\ count >= 1
    /\ iteration >= 1

EmptyOps == {"notify_empty.ready", "notify_empty.pending"}

\* C18: an iteration that ends at a Pending or closed queue makes no ring or
\* notifier call; an iteration with a zero grant makes no release and no
\* notify and asks notify_empty once; none of them changes the queue or what
\* is in the ring.
C18_NothingMoved ==
    /\ [](LastOp \in {"poll_slice.pending", "poll_slice.closed"}
             => Len(ops) = 1 /\ calls = << >>)
    /\ [](\A i \in 1..Len(ops) :
             ops[i] = Op("acquire", 0)
                => \/ i = Len(ops)
                   \/ i + 1 = Len(ops) /\ ops[i + 1].op \in EmptyOps)
    /\ [](LastOp \in EmptyOps
             => /\ Len(ops) = 3
                /\ ops[1].op = "poll_slice"
                /\ ops[2] = Op("acquire", 0)
                /\ Len(SelectSeq(calls, IsNotifyEmpty)) = Len(notifier)
                /\ \A j \in 1..Len(calls) :
                      calls[j].call \in {"notify_empty", "wake_tx"})
    /\ [][(pc \in {"poll_slice", "acquire", "notify_empty"}) /\ pc' # pc =>
             UNCHANGED << outgoing, rx_index, rx_log, tx, tx_index, tx_log,
                          submitted >>]_vars

\* a zero grant at a full queue and a ring that is not empty
C18_Witness ==
    /\ LastOp = "notify_empty.pending"
    /\ pc = "idle"
    /\ Len(outgoing) = QueueCap
    /\ Len(tx) >= 1

\* the notifier is built of the notifiers of tx.rs only
Provided == ~HasLeaf(notifier, "ext")

\* C19: a notifier built of (), worker::Sender, socket::Fd and pairs of them
\* always answers notify_empty with Ready, so the task is never suspended by
\* its notifier: a zero grant always goes on to the next iteration, at the
\* cap the task wakes itself, and it never sleeps while the queue holds
\* descriptors.
C19_NeverWaitsForCapacity ==
    /\ [](Provided =>
             /\ reason # "notifier"
             /\ ~n_waker
             /\ LastOp # "notify_empty.pending"
             /\ \A i \in 1..Len(calls) :
                   calls[i].call = "notify_empty" => calls[i].poll = "Ready"
             /\ pc = "idle" /\ ret = "Pending" => reason \in {"queue", "yield"}
             /\ pc = "idle" /\ ~woken => outgoing = << >> /\ ~closed)
    /\ [][Provided /\ pc = "notify_empty" /\ pc' # pc =>
             /\ iteration' = iteration + 1
             /\ ret' = "none"
             /\ pc' = IF iteration' = IterationCap THEN "wake_self" ELSE "poll_slice"]_vars
    /\ [][Provided /\ pc = "wake_self" /\ pc' # pc => woken' /\ pc' = "idle"]_vars

\* ten zero grants in one resumption at a full ring
C19_Witness ==
    /\ Provided
    /\ pc = "wake_self"
    /\ batches = 0
    /\ Len(tx) = RingCap
    /\ outgoing # << >>

IsNotify(c) == c.call = "notify"

\* C20: a pair calls both of its notifiers, the first and then the second:
\* notify with the same count, notify_empty whatever the first one answers,
\* so that the wakeup of a socket in second place is never skipped.
C20_PairCallsBoth ==
    /\ [](Len(notifier) = 2 /\ LastOp \in EmptyOps =>
             LET asked == SelectSeq(calls, IsNotifyEmpty)
             IN  /\ Len(asked) = 2
                 /\ asked[1].leaf = notifier[1]
                 /\ asked[2].leaf = notifier[2]
                 /\ calls[1] = asked[1])
    /\ [](Len(notifier) = 2 /\ LastOp = "notify" =>
             LET told == SelectSeq(calls, IsNotify)
             IN  /\ Len(told) = 2
                 /\ told[1] = Call(notifier[1], "notify", ops[Len(ops)].n, "Ready")
                 /\ told[2] = Call(notifier[2], "notify", ops[Len(ops)].n, "Ready")
                 /\ calls[1] = told[1])
    /\ [][/\ calls' # calls
          /\ calls' # << >>
          /\ Len(notifier) = 2
          /\ notifier[2] = "socket"
          => IsWake(calls', Len(calls')) <=> needs_wakeup]_vars

\* the first notifier answers Pending and the socket is woken all the same
C20_Witness ==
    /\ notifier = << "ext", "socket" >>
    /\ LastOp = "notify_empty.pending"
    /\ Len(calls) = 3
    /\ calls[1].poll = "Pending"
    /\ calls[3].call = "wake_tx"

====
